---- MODULE Spec2Model ----
(***************************************************************************)
(* MemoryBridge: the OpenClaw installer (scripts/openclaw-install.js), the *)
(* wrapper module it generates (store, query, autoStore,                   *)
(* calculateImportance) and the memory engine the wrapper calls.           *)
(*                                                                         *)
(* JavaScript strings are TLA+ strings; String.prototype methods are       *)
(* operators over them (Len, SubSeq and \o work on strings in TLC).        *)
(* Option objects are functions from property names to values.             *)
(***************************************************************************)
EXTENDS Integers, Sequences, FiniteSets, TLC

(***************************************************************************)
(* JavaScript string primitives used by the wrapper.                       *)
(***************************************************************************)

Min2(a, b) == IF a <= b THEN a ELSE b

Max2(a, b) == IF a >= b THEN a ELSE b

\* s.charAt(i - 1): the i-th character (1-based), as a one-character string.
CharAt(s, i) == SubSeq(s, i, i)

\* The characters String.prototype.trim removes (those the inputs use).
WhiteSpace == {" ", "\t", "\n"}

IsSpace(ch) == ch \in WhiteSpace

\* n copies of s, by halving (keeps the evaluation depth logarithmic).
RECURSIVE Repeat(_, _)
Repeat(s, n) ==
    IF n <= 0 THEN ""
    ELSE LET h == Repeat(s, n \div 2)
         IN  h \o h \o (IF n % 2 = 1 THEN s ELSE "")

\* s.slice(0, n) for n >= 0.
SliceFromStart(s, n) == SubSeq(s, 1, Min2(n, Len(s)))

\* The position of the first and of the last character of s that is no white space.
FirstNonSpace(s) ==
    CHOOSE i \in 1..Len(s) :
        /\ ~IsSpace(CharAt(s, i))
        /\ \A j \in 1..(i - 1) : IsSpace(CharAt(s, j))

LastNonSpace(s) ==
    CHOOSE i \in 1..Len(s) :
        /\ ~IsSpace(CharAt(s, i))
        /\ \A j \in (i + 1)..Len(s) : IsSpace(CharAt(s, j))

\* s.trim(): s without its leading and trailing white space.
Trim(s) ==
    IF \A i \in 1..Len(s) : IsSpace(CharAt(s, i)) THEN ""
    ELSE SubSeq(s, FirstNonSpace(s), LastNonSpace(s))

\* s.includes(w): w occurs in s as a substring (case-sensitive).
Includes(s, w) ==
    \E i \in 1..(Len(s) - Len(w) + 1) : SubSeq(s, i, i + Len(w) - 1) = w

UpperLetters == "ABCDEFGHIJKLMNOPQRSTUVWXYZ"

LowerLetters == "abcdefghijklmnopqrstuvwxyz"

\* The lower-case form of each upper-case letter.
LowerOf ==
    [ch \in {CharAt(UpperLetters, k) : k \in 1..Len(UpperLetters)} |->
        CharAt(LowerLetters,
               CHOOSE k \in 1..Len(UpperLetters) : CharAt(UpperLetters, k) = ch)]

LowerChar(ch) == IF ch \in DOMAIN LowerOf THEN LowerOf[ch] ELSE ch

\* s.toLowerCase(), by halving.
RECURSIVE ToLowerCase(_)
ToLowerCase(s) ==
    IF Len(s) = 0 THEN ""
    ELSE IF Len(s) = 1 THEN LowerChar(s)
    ELSE LET h == Len(s) \div 2
         IN  ToLowerCase(SubSeq(s, 1, h)) \o ToLowerCase(SubSeq(s, h + 1, Len(s)))

\* { ...a, ...b }: object spread, the later object's properties win.
Spread(a, b) ==
    [k \in (DOMAIN a) \cup (DOMAIN b) |-> IF k \in DOMAIN b THEN b[k] ELSE a[k]]

\* An options object with no properties ({}).
NoOptions == [k \in {} |-> 0]

Has(o, k) == k \in DOMAIN o

(***************************************************************************)
(* The generated wrapper (openclaw-wrapper.js).                            *)
(***************************************************************************)

\* The truncation length of store().
MaxContentLength == 5000

\* Variant of Sanitize that forgets the trim.
SanitizeNoTrim(content) == SliceFromStart(content, MaxContentLength)

\* const sanitized = content.slice(0, 5000).trim();
Sanitize(content) == Trim(SliceFromStart(content, MaxContentLength))

\* The defaults store() spreads the caller's options over.
StoreDefaults == [agentId |-> "OpenClaw", source |-> "openclaw-chat"]

\* Variants of StoreOptions: the caller's options are dropped; the defaults
\* are spread last and win; the defaults carry an importance.
StoreOptionsDefaultsOnly(options) == StoreDefaults

StoreOptionsDefaultsWin(options) == Spread(options, StoreDefaults)

StoreOptionsWithImportance(options) ==
    Spread([agentId |-> "OpenClaw", source |-> "openclaw-chat", importance |-> 5],
           options)

\* { agentId: 'OpenClaw', source: 'openclaw-chat', ...options }
StoreOptions(options) == Spread(StoreDefaults, options)

DefaultLimit == 5

DefaultDays == 30

\* The defaults query() spreads the caller's options over.
QueryDefaults == [agentId |-> "OpenClaw", limit |-> DefaultLimit, days |-> DefaultDays]

\* Variant of QueryOptions whose default window is a year.
QueryOptionsYear(options) ==
    Spread([agentId |-> "OpenClaw", limit |-> DefaultLimit, days |-> 365], options)

\* { agentId: 'OpenClaw', limit: 5, days: 30, ...options }
QueryOptions(options) == Spread(QueryDefaults, options)

HighValueWords ==
    {"decide", "build", "create", "launch", "important", "critical", "goal", "prefer"}

\* calculateImportance(userMsg, agentResp); agentResp is never read.
calculateImportance(userMsg) ==
    LET lower   == ToLowerCase(userMsg)
        len1    == IF Len(userMsg) > 100 THEN 1 ELSE 0
        len2    == IF Len(userMsg) > 300 THEN 1 ELSE 0
        matches == Cardinality({w \in HighValueWords : Includes(lower, w)})
        sec     == IF \/ Includes(lower, "security")
                      \/ Includes(lower, "password")
                      \/ Includes(lower, "api key")
                   THEN 3 ELSE 0
    IN  Min2(10, 5 + len1 + len2 + Min2(3, matches) + sec)

\* Variant of MentionsDecision that ignores case.
MentionsDecisionAnyCase(userMessage) ==
    \/ Includes(ToLowerCase(userMessage), "decide")
    \/ Includes(ToLowerCase(userMessage), "build")
    \/ Includes(ToLowerCase(userMessage), "create")

\* The three words autoStore looks for (case-sensitively) before its second store.
MentionsDecision(userMessage) ==
    \/ Includes(userMessage, "decide")
    \/ Includes(userMessage, "build")
    \/ Includes(userMessage, "create")

\* if (importance >= 6)
ShouldAutoStore(importance) == importance >= 6

\* type: importance >= 8 ? 'insight' : 'conversation'
AutoStoreType(importance) == IF importance >= 8 THEN "insight" ELSE "conversation"

\* The options of autoStore's first store call.
AutoStoreOptions(importance) ==
    [type |-> AutoStoreType(importance), importance |-> importance]

\* `Decision: ${userMessage}`
DecisionContent(userMessage) == "Decision: " \o userMessage

\* The options of autoStore's second store call.
DecisionOptions == [type |-> "decision", importance |-> 9]

(***************************************************************************)
(* The memory engine (require('memory-bridge')): its source is not in the  *)
(* repository's files, so it is modelled from its specified contract.      *)
(***************************************************************************)

\* config.agentId, the identity the engine falls back to.
ConfigAgentId == "OpenClaw"

GetOr(o, k, d) == IF k \in DOMAIN o THEN o[k] ELSE d

\* store: truncate and trim the content.
NormalizeContent(content) == Trim(SliceFromStart(content, MaxContentLength))

Clamp(v) == Max2(1, Min2(10, v))

SensitiveTerms == {"security", "password", "api key"}

HasSensitiveTerm(content) ==
    \E w \in SensitiveTerms : Includes(ToLowerCase(content), w)

Delimiters == WhiteSpace \cup {",", ".", ":", ";", "!", "?"}

IsDelimiter(ch) == ch \in Delimiters

StopWords == {"the", "and", "this", "that", "what", "for", "with", "was", "are"}

MinTermLength == 3

\* Where the maximal delimiter-free runs of s start, and where the one
\* starting at i ends.
TermStarts(s) ==
    {i \in 1..Len(s) : /\ ~IsDelimiter(CharAt(s, i))
                       /\ (i = 1 \/ IsDelimiter(CharAt(s, i - 1)))}

TermEnd(s, i) ==
    CHOOSE j \in i..Len(s) :
        /\ (j = Len(s) \/ IsDelimiter(CharAt(s, j + 1)))
        /\ \A k \in (i + 1)..j : ~IsDelimiter(CharAt(s, k))

\* The maximal delimiter-free runs of s, lower-cased.
Terms(s) == {ToLowerCase(SubSeq(s, i, TermEnd(s, i))) : i \in TermStarts(s)}

\* Keyword Extractor, the part that reads the content.
ContentKeywords(content) ==
    {t \in Terms(content) : Len(t) >= MinTermLength /\ t \notin StopWords}

\* Keyword Extractor, the synthetic keyword a content type contributes.
TypeKeywords(type) == IF type = "security" THEN {"security"} ELSE {}

\* Importance Scorer, computed from the content and its type.
ComputedImportance(length, sensitive, type) ==
    Clamp(5 + (IF length > 200 THEN 1 ELSE 0)
            + (IF type = "insight" THEN 2 ELSE 0)
            + (IF type = "error" THEN 1 ELSE 0)
            + (IF type = "goal" THEN 2 ELSE 0)
            + (IF sensitive THEN 3 ELSE 0))

\* Importance Scorer: an explicit importance is clamped, never overridden.
ResolveImportance(options, computed) ==
    IF Has(options, "importance") THEN Clamp(options.importance) ELSE computed

\* Ranking weights of the weighted sum (keyword overlap before importance).
KeywordWeight == 7

ImportanceWeight == 3

\* An exact match of a query keyword counts 2, a substring match 1.
MatchCredit(term, keywords) ==
    IF term \in keywords THEN 2
    ELSE IF \E k \in keywords : Includes(k, term) \/ Includes(term, k) THEN 1
    ELSE 0

RECURSIVE SumCredit(_, _)
SumCredit(terms, keywords) ==
    IF terms = {} THEN 0
    ELSE LET t == CHOOSE u \in terms : TRUE
         IN  MatchCredit(t, keywords) + SumCredit(terms \ {t}, keywords)

\* Variant of RelevanceScore that ranks by importance alone.
RelevanceScoreImportanceOnly(m, queryKeywords) == ImportanceWeight * m.importance

\* The relevance of a memory for the query keywords, times
\* 20 * |queryKeywords| * (KeywordWeight + ImportanceWeight).
RelevanceScore(m, queryKeywords) ==
    IF queryKeywords = {} THEN ImportanceWeight * m.importance
    ELSE KeywordWeight * 10 * SumCredit(queryKeywords, m.keywords)
         + ImportanceWeight * m.importance * 2 * Cardinality(queryKeywords)

\* The same relevance as a value in [0, 1], in thousandths.
RelevancePermille(m, queryKeywords) ==
    LET n == Cardinality(queryKeywords)
    IN  IF n = 0
        THEN (ImportanceWeight * m.importance * 100)
                 \div (KeywordWeight + ImportanceWeight)
        ELSE (RelevanceScore(m, queryKeywords) * 50)
                 \div (n * (KeywordWeight + ImportanceWeight))

\* a ranks before b: higher relevance, then more recent, then inserted first.
RanksBefore(a, b, queryKeywords) ==
    LET sa == RelevanceScore(a, queryKeywords)
        sb == RelevanceScore(b, queryKeywords)
    IN  \/ sa > sb
        \/ sa = sb /\ a.createdAt > b.createdAt
        \/ sa = sb /\ a.createdAt = b.createdAt /\ a.id < b.id

\* The candidates sorted by RanksBefore.
Ranked(candidates, queryKeywords) ==
    [i \in 1..Cardinality(candidates) |->
        CHOOSE m \in candidates :
            Cardinality({o \in candidates : RanksBefore(o, m, queryKeywords)}) = i - 1]

(***************************************************************************)
(* Inputs the specifications draw from.                                    *)
(***************************************************************************)

MaxMemories == 2

MaxTicks == 2

TickDays == 20

MaxAutoCalls == 1

GoalNote == "Nikola wants to build 3 products this quarter"

PrefNote == "User prefers dark mode"

KeyNote == "My API key leaked, this is a critical security issue"

\* The store calls, query strings and query options of Spec.
RankStoreCalls ==
    {[content |-> GoalNote, options |-> [type |-> "goal", importance |-> 9]],
     [content |-> PrefNote, options |-> [type |-> "preference", importance |-> 9]],
     [content |-> PrefNote, options |-> [importance |-> 9, agentId |-> "Research"]],
     [content |-> GoalNote, options |-> NoOptions]}

RankContents == {c.content : c \in RankStoreCalls}

QueryStrings == {"what Nikola wants to build", "dark product"}

QueryOptionInputs ==
    {NoOptions,
     [limit |-> 1],
     [days |-> 7, agentId |-> "Research"],
     [minImportance |-> 8, limit |-> 3]}

\* Contents and options of SpecContent: around the truncation length, and blank.
LongContents ==
    {"  dark mode \n",
     "",
     " \t ",
     Repeat(" ", MaxContentLength + 1),
     Repeat("x", MaxContentLength),
     Repeat("x", MaxContentLength + 1),
     " " \o Repeat("x", MaxContentLength),
     Repeat("x", MaxContentLength - 1) \o " tail",
     Repeat("x", MaxContentLength - 2) \o "y z"}

LongStoreOptions == {NoOptions, [type |-> "error"]}

\* Contents and options of SpecScore: every adjustment of the scorer.
ScoreContents ==
    {PrefNote,
     KeyNote,
     "new PASSWORD set",
     Repeat("x", 200),
     Repeat("x", 201)}

ScoreStoreOptions ==
    {NoOptions,
     [type |-> "preference"],
     [type |-> "insight"],
     [type |-> "error"],
     [type |-> "goal"],
     [type |-> "goal", importance |-> 3]}

\* Messages of SpecAuto, and the direct store calls interleaved with autoStore.
Messages ==
    {"ok thanks",
     PrefNote,
     "please build the landing page",
     "we should Build it",
     "I decide to create and launch the critical build",
     KeyNote,
     Repeat(" ", 101),
     Repeat(" ", MaxContentLength) \o "build",
     Repeat("x", 301) \o " create"}

DirectContents == {PrefNote}

DirectStoreOptions == {[importance |-> 0 - 3], [importance |-> 11], [importance |-> 7]}

AllContents ==
    RankContents \cup LongContents \cup ScoreContents \cup Messages
        \cup DirectContents \cup {DecisionContent(m) : m \in Messages}

(***************************************************************************)
(* The pure functions above, tabulated over the inputs (each table is      *)
(* evaluated once).                                                        *)
(***************************************************************************)

SanitizeTable == [c \in AllContents |-> Sanitize(c)]

ImportanceTable == [m \in Messages |-> calculateImportance(m)]

MentionsDecisionTable == [m \in Messages |-> MentionsDecision(m)]

\* What the engine derives from a content it is handed.
EngineView(content) ==
    [content   |-> NormalizeContent(content),
     keywords  |-> ContentKeywords(NormalizeContent(content)),
     sensitive |-> HasSensitiveTerm(NormalizeContent(content))]

EngineContentTable == [c \in {SanitizeTable[d] : d \in AllContents} |-> EngineView(c)]

QueryKeywordTable == [q \in QueryStrings |-> ContentKeywords(q)]

(***************************************************************************)
(* State.                                                                  *)
(***************************************************************************)

VARIABLES
    memories,       \* the backend's records, in insertion order
    now,            \* the clock, in days
    ticks,          \* clock advances so far
    last,           \* the wrapper's most recent store or query call and its outcome
    auto,           \* the autoStore call in progress
    fs,             \* the file system under MEMORY_DIR
    inst            \* the installer process

vars == <<memories, now, ticks, last, auto, fs, inst>>

\* process.env.OPENCLAW_WORKSPACE || '/Users/ares/.openclaw/workspace'
DefaultWorkspace == "/Users/ares/.openclaw/workspace"

Workspaces == {DefaultWorkspace, "/srv/openclaw"}

\* The files main() writes into MEMORY_DIR.
FileNames == {"config.json", "openclaw-wrapper.js", "example.js"}

\* A workspace without a .memory-bridge directory.
NotInstalled == [dir |-> FALSE, files |-> [f \in FileNames |-> 0]]

AutoIdle == [pc |-> "idle", userMessage |-> "", importance |-> 0,
             issued |-> <<>>, calls |-> 0]

Init ==
    /\ memories = <<>>
    /\ now = 0
    /\ ticks = 0
    /\ last = [op |-> "none"]
    /\ auto = AutoIdle
    /\ fs = [w \in Workspaces |-> NotInstalled]
    /\ inst = [pc |-> "idle", run |-> 0, workspace |-> DefaultWorkspace,
               fsAtStart |-> [w \in Workspaces |-> NotInstalled],
               threw |-> FALSE, exitCode |-> 0 - 1]

(***************************************************************************)
(* Engine operations.                                                      *)
(***************************************************************************)

\* Variant of IsEmptyContent that rejects nothing.
IsEmptyContentNever(normal) == FALSE

\* store: content that is empty after normalisation is rejected.
IsEmptyContent(normal) == normal = ""

\* memory.store(content, options) in the current state: the outcome and the
\* records after it.
EngineStore(content, options) ==
    LET view == EngineContentTable[content]
        type == GetOr(options, "type", "conversation")
        mem  == [id          |-> Len(memories) + 1,
                 content     |-> view.content,
                 contentType |-> type,
                 importance  |-> ResolveImportance(options,
                                     ComputedImportance(Len(view.content),
                                                        view.sensitive, type)),
                 source      |-> GetOr(options, "source", ""),
                 agentId     |-> GetOr(options, "agentId", ConfigAgentId),
                 keywords    |-> view.keywords \cup TypeKeywords(type),
                 createdAt   |-> now]
    IN  IF IsEmptyContent(view.content)
        THEN [ok |-> FALSE, error |-> "EmptyContentError", id |-> 0,
              memories |-> memories]
        ELSE [ok |-> TRUE, error |-> "", id |-> mem.id,
              memories |-> Append(memories, mem)]

\* selectByFilter(agentId, timeWindow, minImportance)
SelectByFilter(agentId, days, minImportance) ==
    {memories[i] : i \in {j \in 1..Len(memories) :
        /\ memories[j].agentId = agentId
        /\ memories[j].createdAt >= now - days
        /\ memories[j].importance >= minImportance}}

\* memory.query(queryString, options) in the current state.
EngineQuery(queryString, options) ==
    LET keywords   == QueryKeywordTable[queryString]
        candidates == SelectByFilter(GetOr(options, "agentId", ConfigAgentId),
                                     GetOr(options, "days", 30),
                                     GetOr(options, "minImportance", 0))
        ranked     == Ranked(candidates, keywords)
        limit      == GetOr(options, "limit", 5)
    IN  [candidates |-> candidates,
         result     |-> [i \in 1..Min2(limit, Len(ranked)) |->
                            [memory    |-> ranked[i],
                             relevance |-> RelevancePermille(ranked[i], keywords)]]]

(***************************************************************************)
(* Wrapper operations.                                                     *)
(***************************************************************************)

\* store(content, options)
Store(content, options) ==
    /\ Len(memories) < MaxMemories
    /\ LET sanitized == SanitizeTable[content]
           call      == StoreOptions(options)
           r         == EngineStore(sanitized, call)
       IN  /\ memories' = r.memories
           /\ last' = [op |-> "store", content |-> content, options |-> options,
                       sanitized |-> sanitized, call |-> call, ok |-> r.ok,
                       id |-> r.id, before |-> memories]
    /\ UNCHANGED <<now, ticks, auto, fs, inst>>

\* query(queryString, options)
Query(queryString, options) ==
    /\ LET call == QueryOptions(options)
           r    == EngineQuery(queryString, call)
       IN  last' = [op |-> "query", queryString |-> queryString, options |-> options,
                    call |-> call, at |-> now, candidates |-> r.candidates,
                    result |-> r.result]
    /\ UNCHANGED <<memories, now, ticks, auto, fs, inst>>

\* Time passes.
Tick ==
    /\ ticks < MaxTicks
    /\ now' = now + TickDays
    /\ ticks' = ticks + 1
    /\ UNCHANGED <<memories, last, auto, fs, inst>>

\* autoStore(userMessage, agentResponse), up to its first await: the
\* importance is computed and, if it is high enough, store is called.
AutoStoreBegin(userMessage) ==
    /\ auto.pc \in {"idle", "done", "failed"}
    /\ auto.calls < MaxAutoCalls
    /\ auto' =
         IF ShouldAutoStore(ImportanceTable[userMessage])
         THEN [pc |-> "first", userMessage |-> userMessage,
               importance |-> ImportanceTable[userMessage],
               issued |-> <<[content |-> userMessage,
                             options |-> AutoStoreOptions(ImportanceTable[userMessage]),
                             outcome |-> "pending", id |-> 0]>>,
               calls |-> auto.calls + 1]
         ELSE [pc |-> "done", userMessage |-> userMessage,
               importance |-> ImportanceTable[userMessage],
               issued |-> <<>>, calls |-> auto.calls + 1]
    /\ UNCHANGED <<memories, now, ticks, last, fs, inst>>

\* The awaited first store settles; autoStore goes on to the decision store,
\* returns, or (the store rejected) throws.
AutoFirstSettles ==
    /\ auto.pc = "first"
    /\ LET call == auto.issued[1]
           r    == EngineStore(SanitizeTable[call.content], StoreOptions(call.options))
           done == [call EXCEPT !.outcome = IF r.ok THEN "ok" ELSE r.error,
                                !.id = r.id]
       IN  /\ memories' = r.memories
           /\ auto' =
                IF ~r.ok
                THEN [auto EXCEPT !.pc = "failed", !.issued = <<done>>]
                ELSE IF MentionsDecisionTable[auto.userMessage]
                THEN [auto EXCEPT !.pc = "decision",
                         !.issued = <<done,
                                      [content |-> DecisionContent(auto.userMessage),
                                       options |-> DecisionOptions,
                                       outcome |-> "pending", id |-> 0]>>]
                ELSE [auto EXCEPT !.pc = "done", !.issued = <<done>>]
    /\ UNCHANGED <<now, ticks, last, fs, inst>>

\* The awaited decision store settles.
AutoDecisionSettles ==
    /\ auto.pc = "decision"
    /\ LET call == auto.issued[2]
           r    == EngineStore(SanitizeTable[call.content], StoreOptions(call.options))
       IN  /\ memories' = r.memories
           /\ auto' = [auto EXCEPT
                          !.pc = IF r.ok THEN "done" ELSE "failed",
                          !.issued[2].outcome = IF r.ok THEN "ok" ELSE r.error,
                          !.issued[2].id = r.id]
    /\ UNCHANGED <<now, ticks, last, fs, inst>>

(***************************************************************************)
(* The installer (openclaw-install.js).                                    *)
(***************************************************************************)

MaxRuns == 3

\* Variant of AlreadyInstalled that looks for config.json instead of the directory.
AlreadyInstalledIfConfigured(f, w) == f[w].files["config.json"] # 0

\* fs.existsSync(MEMORY_DIR), for the MEMORY_DIR of workspace w.
AlreadyInstalled(f, w) == f[w].dir

\* The exit status of a Node process that ends with an uncaught exception.
UncaughtExceptionExit == 1

\* node openclaw-install.js, with OPENCLAW_WORKSPACE unset (the default
\* workspace) or set.
InstallerStart(workspace) ==
    /\ inst.pc \in {"idle", "exited"}
    /\ inst.run < MaxRuns
    /\ inst' = [pc |-> "check", run |-> inst.run + 1, workspace |-> workspace,
                fsAtStart |-> fs, threw |-> FALSE, exitCode |-> 0 - 1]
    /\ UNCHANGED <<memories, now, ticks, last, auto, fs>>

\* if (fs.existsSync(MEMORY_DIR)) { ...; return; }
MainCheck ==
    /\ inst.pc = "check"
    /\ inst' = [inst EXCEPT !.pc = IF AlreadyInstalled(fs, inst.workspace)
                                   THEN "returned" ELSE "mkdir"]
    /\ UNCHANGED <<memories, now, ticks, last, auto, fs>>

\* fs.mkdirSync(MEMORY_DIR, { recursive: true }) creates the directory or throws.
MainMkdir ==
    /\ inst.pc = "mkdir"
    /\ \/ /\ fs' = [fs EXCEPT ![inst.workspace].dir = TRUE]
          /\ inst' = [inst EXCEPT !.pc = "config.json"]
       \/ /\ inst' = [inst EXCEPT !.pc = "threw", !.threw = TRUE]
          /\ UNCHANGED fs
    /\ UNCHANGED <<memories, now, ticks, last, auto>>

\* What main() does after writing a file.
AfterWrite(file) ==
    CASE file = "config.json" -> "openclaw-wrapper.js"
      [] file = "openclaw-wrapper.js" -> "example.js"
      [] file = "example.js" -> "returned"

\* fs.writeFileSync(path.join(MEMORY_DIR, file), ...) writes the file (marked
\* here with the run that wrote it) or throws.
MainWriteFile(file) ==
    /\ inst.pc = file
    /\ \/ /\ fs' = [fs EXCEPT ![inst.workspace].files[file] = inst.run]
          /\ inst' = [inst EXCEPT !.pc = AfterWrite(file)]
       \/ /\ inst' = [inst EXCEPT !.pc = "threw", !.threw = TRUE]
          /\ UNCHANGED fs
    /\ UNCHANGED <<memories, now, ticks, last, auto>>

\* main().catch(...): main is no async function and has returned undefined, so
\* reading .catch throws a TypeError nothing catches.
TopLevelAfterReturn ==
    /\ inst.pc = "returned"
    /\ inst' = [inst EXCEPT !.pc = "exited", !.exitCode = UncaughtExceptionExit]
    /\ UNCHANGED <<memories, now, ticks, last, auto, fs>>

\* A step of main() threw: the exception leaves main() before .catch is
\* reached, and nothing catches it.
TopLevelAfterThrow ==
    /\ inst.pc = "threw"
    /\ inst' = [inst EXCEPT !.pc = "exited", !.exitCode = UncaughtExceptionExit]
    /\ UNCHANGED <<memories, now, ticks, last, auto, fs>>

(***************************************************************************)
(* Specifications.                                                         *)
(***************************************************************************)

\* store, query and the clock, over short contents.
Next ==
    \/ \E c \in RankStoreCalls : Store(c.content, c.options)
    \/ \E q \in QueryStrings, o \in QueryOptionInputs : Query(q, o)
    \/ Tick

Spec == Init /\ [][Next]_vars

\* store over contents around the truncation length and blank contents.
NextContent == \E c \in LongContents, o \in LongStoreOptions : Store(c, o)

SpecContent == Init /\ [][NextContent]_vars

\* store over the contents and types the scorer distinguishes.
NextScore == \E c \in ScoreContents, o \in ScoreStoreOptions : Store(c, o)

SpecScore == Init /\ [][NextScore]_vars

\* autoStore, interleaved with direct store calls.
NextAuto ==
    \/ \E m \in Messages : AutoStoreBegin(m)
    \/ AutoFirstSettles
    \/ AutoDecisionSettles
    \/ \E c \in DirectContents, o \in DirectStoreOptions : Store(c, o)

SpecAuto == Init /\ [][NextAuto]_vars

\* Runs of the installer, one after the other.
NextInstall ==
    \/ \E w \in Workspaces : InstallerStart(w)
    \/ MainCheck
    \/ MainMkdir
    \/ \E f \in FileNames : MainWriteFile(f)
    \/ TopLevelAfterReturn
    \/ TopLevelAfterThrow

SpecInstall == Init /\ [][NextInstall]_vars

(***************************************************************************)
(* Properties.                                                             *)
(***************************************************************************)

\* The memory the most recent store call persisted (when it succeeded).
Persisted == memories[last.id]

StoredOk == last.op = "store" /\ last.ok

Queried == last.op = "query"

\* C1, as stated: content longer than 5000 characters is persisted with length
\* exactly 5000 (and every persisted content has length at most 5000 and no
\* leading or trailing white space).
C1_ExactlyMaxLength ==
    StoredOk =>
        /\ Len(Persisted.content) <= MaxContentLength
        /\ ~IsSpace(CharAt(Persisted.content, 1))
        /\ ~IsSpace(CharAt(Persisted.content, Len(Persisted.content)))
        /\ (Len(last.content) > MaxContentLength
                => Len(Persisted.content) = MaxContentLength)

\* C1, amended: the content store hands the engine, which is the content
\* persisted, has length at most 5000 and no leading or trailing white space;
\* its length is exactly 5000 when the content is longer than 5000 characters
\* and neither its first nor its 5000th character is white space.
C1_TruncatedThenTrimmed ==
    /\ last.op = "store" =>
        /\ Len(last.sanitized) <= MaxContentLength
        /\ (last.sanitized # "" =>
                /\ ~IsSpace(CharAt(last.sanitized, 1))
                /\ ~IsSpace(CharAt(last.sanitized, Len(last.sanitized))))
    /\ StoredOk =>
        /\ Persisted.content = last.sanitized
        /\ ((/\ Len(last.content) > MaxContentLength
             /\ ~IsSpace(CharAt(last.content, 1))
             /\ ~IsSpace(CharAt(last.content, MaxContentLength)))
                => Len(Persisted.content) = MaxContentLength)

\* C1, witness: a content longer than 5000 characters was persisted with 5000.
C1_Witness ==
    /\ StoredOk
    /\ Len(last.content) > MaxContentLength
    /\ Len(Persisted.content) = MaxContentLength

\* C2: an explicit importance v, given to store directly or by autoStore, is
\* persisted as max(1, min(10, v)); every persisted importance is in 1..10.
C2_ExplicitImportanceClamped ==
    /\ (StoredOk /\ Has(last.options, "importance")) =>
           Persisted.importance = Max2(1, Min2(10, last.options.importance))
    /\ \A k \in DOMAIN auto.issued :
           auto.issued[k].outcome = "ok" =>
               memories[auto.issued[k].id].importance
                   = Max2(1, Min2(10, auto.issued[k].options.importance))
    /\ \A i \in 1..Len(memories) : memories[i].importance \in 1..10

\* C2, witness: an importance above the range was persisted as 10 and autoStore
\* has persisted a memory of its own.
C2_Witness ==
    /\ StoredOk
    /\ Has(last.options, "importance")
    /\ last.options.importance > 10
    /\ Persisted.importance = 10
    /\ \E k \in DOMAIN auto.issued : auto.issued[k].outcome = "ok"

BlankAfterTruncation(content) ==
    \A i \in 1..Min2(Len(content), MaxContentLength) : IsSpace(CharAt(content, i))

\* C4: a store call whose content is empty after truncation and trimming is
\* rejected and persists nothing; no persisted memory has empty content.
C4_EmptyContentRejected ==
    /\ (last.op = "store" /\ BlankAfterTruncation(last.content)) =>
           (~last.ok /\ memories = last.before)
    /\ \A i \in 1..Len(memories) : memories[i].content # ""

\* C4, witness: a blank content longer than 5000 characters was rejected after
\* another memory had been persisted.
C4_Witness ==
    /\ last.op = "store"
    /\ ~last.ok
    /\ Len(last.content) > MaxContentLength
    /\ Len(memories) > 0

\* The agent a call's options resolve to.
ResolvedAgent(options) ==
    IF Has(options, "agentId") THEN options.agentId ELSE "OpenClaw"

\* C5: a store without an explicit agentId persists agent 'OpenClaw', an
\* explicit agentId replaces it, and a query returns only memories of the
\* agent it resolved to.
C5_AgentIsolation ==
    /\ StoredOk => Persisted.agentId = ResolvedAgent(last.options)
    /\ Queried =>
           \A i \in DOMAIN last.result :
               last.result[i].memory.agentId = ResolvedAgent(last.options)

\* C5, witness: a query for an explicit agent returned that agent's memory
\* while another agent's memory was stored.
C5_Witness ==
    /\ Queried
    /\ Has(last.options, "agentId")
    /\ Len(last.result) > 0
    /\ \E i \in 1..Len(memories) : memories[i].agentId = "OpenClaw"
    /\ \E i \in 1..Len(memories) : memories[i].agentId = last.options.agentId

\* The window of a query, in days.
ResolvedDays(options) == IF Has(options, "days") THEN options.days ELSE 30

\* C6: query(q, {days: D}) returns no memory created before now - D days, and
\* D is 30 when days is omitted.
C6_TimeWindow ==
    Queried =>
        \A i \in DOMAIN last.result :
            last.result[i].memory.createdAt >= last.at - ResolvedDays(last.options)

\* C6, witness: a query with the default window returned a memory and left
\* out a memory of the same agent that was too old.
C6_Witness ==
    /\ Queried
    /\ ~Has(last.options, "days")
    /\ Len(last.result) > 0
    /\ \E i \in 1..Len(memories) :
           /\ memories[i].agentId = ResolvedAgent(last.options)
           /\ memories[i].createdAt < last.at - 30

\* a's keywords hold every keyword of the query, b's hold none, and the two
\* have the same importance.
FullAgainstNone(a, b, queryKeywords) ==
    /\ queryKeywords # {}
    /\ a.importance = b.importance
    /\ queryKeywords \subseteq a.keywords
    /\ queryKeywords \cap b.keywords = {}

\* C7: of two candidates with the same importance, one matching every keyword
\* of the query and one matching none, the first comes strictly before the
\* second in the result (so the second is never the one kept by limit 1).
C7_FullMatchRanksFirst ==
    Queried =>
        \A a, b \in last.candidates :
            FullAgainstNone(a, b, QueryKeywordTable[last.queryString]) =>
                \A j \in DOMAIN last.result :
                    last.result[j].memory = b =>
                        \E i \in 1..(j - 1) : last.result[i].memory = a

\* C7, witness: the full match came first although the other memory is newer.
C7_Witness ==
    /\ Queried
    /\ Len(last.result) >= 2
    /\ FullAgainstNone(last.result[1].memory, last.result[2].memory,
                       QueryKeywordTable[last.queryString])
    /\ last.result[2].memory.createdAt > last.result[1].memory.createdAt

\* The user message holds 'decide', 'build' or 'create'.
HoldsDecisionWord ==
    [m \in Messages |-> \E w \in {"decide", "build", "create"} : Includes(m, w)]

AutoReturned == auto.pc \in {"done", "failed"}

\* The first store call autoStore makes for a message of importance at least 6.
FirstCallIs(call, userMessage, importance) ==
    /\ call.content = userMessage
    /\ call.options = [type |-> IF importance >= 8 THEN "insight" ELSE "conversation",
                       importance |-> importance]

DecisionCallIs(call, userMessage) ==
    /\ call.content = "Decision: " \o userMessage
    /\ call.options = [type |-> "decision", importance |-> 9]

\* C8, as stated: no store call when the importance is below 6; otherwise the
\* store of the user message and then, if and only if the message holds
\* 'decide', 'build' or 'create', the store of the decision.
C8_DecisionIffWord ==
    AutoReturned =>
        IF ImportanceTable[auto.userMessage] < 6
        THEN auto.issued = <<>>
        ELSE /\ Len(auto.issued) \in {1, 2}
             /\ FirstCallIs(auto.issued[1], auto.userMessage,
                            ImportanceTable[auto.userMessage])
             /\ (Len(auto.issued) = 2 <=> HoldsDecisionWord[auto.userMessage])
             /\ (Len(auto.issued) = 2 =>
                    DecisionCallIs(auto.issued[2], auto.userMessage))

\* C8, amended: the decision store is made if and only if the store of the
\* user message completed and the message holds one of the three words; the
\* decision is never stored before the user message.
C8_DecisionIffStoredAndWord ==
    /\ AutoReturned =>
        IF ImportanceTable[auto.userMessage] < 6
        THEN auto.issued = <<>>
        ELSE /\ Len(auto.issued) \in {1, 2}
             /\ FirstCallIs(auto.issued[1], auto.userMessage,
                            ImportanceTable[auto.userMessage])
             /\ (Len(auto.issued) = 2 <=>
                    /\ auto.issued[1].outcome = "ok"
                    /\ HoldsDecisionWord[auto.userMessage])
             /\ (Len(auto.issued) = 2 =>
                    DecisionCallIs(auto.issued[2], auto.userMessage))
    /\ Len(auto.issued) = 2 =>
        /\ auto.issued[1].outcome = "ok"
        /\ (auto.issued[2].outcome = "ok" => auto.issued[1].id < auto.issued[2].id)

\* C8, witness: autoStore returned after both of its stores were persisted.
C8_Witness ==
    /\ AutoReturned
    /\ Len(auto.issued) = 2
    /\ auto.issued[1].outcome = "ok"
    /\ auto.issued[2].outcome = "ok"
    /\ memories[auto.issued[2].id].contentType = "decision"

\* C9: a run that finds the .memory-bridge directory of its workspace writes
\* nothing, and the files of a workspace are all those of one run.
C9_NoWriteWhenInstalled ==
    /\ (inst.pc # "idle" /\ inst.fsAtStart[inst.workspace].dir) => fs = inst.fsAtStart
    /\ \A w \in Workspaces : \A f, g \in FileNames :
           (fs[w].files[f] # 0 /\ fs[w].files[g] # 0) => fs[w].files[f] = fs[w].files[g]

\* C9, witness: a third run has ended over the complete install of the first.
C9_Witness ==
    /\ inst.pc = "exited"
    /\ inst.run = 3
    /\ inst.fsAtStart[inst.workspace].dir
    /\ \A f \in FileNames : fs[inst.workspace].files[f] = 1

\* C10: the installer ends with a non-zero exit status exactly when a step of
\* the installation threw.
C10_ExitStatusReflectsFailure ==
    inst.pc = "exited" => (inst.exitCode # 0 <=> inst.threw)
====
